---- MODULE Spec2Model ----
(***************************************************************************)
(* Model of app.py: the sidebar filters and the SQL text built from them,  *)
(* the result table, create_pdf (chart image, table styling, scratch file) *)
(* and create_excel_with_chart (gold rows, embedded chart).                *)
(***************************************************************************)
EXTENDS Integers, Sequences, FiniteSets

VARIABLES start_date, end_date, selected_products, selected_categories,
          query_option, script, base_condition, query,
          origin, df, pc, figure, elements, style, err,
          chart_png, pdf_on_disk, download, excel

filterVars == <<start_date, end_date, selected_products, selected_categories,
                query_option>>
queryVars == <<script, base_condition, query>>
exportVars == <<origin, df, pc, figure, elements, style, err,
                chart_png, pdf_on_disk, download, excel>>
vars == <<filterVars, queryVars, exportVars>>

(* ------------------------------ bounds -------------------------------- *)
MaxDate == 2
MaxRows == 4
MaxAmount == 3
MaxQty == 2

(* ----------------------- sidebar and SQL text -------------------------- *)
Dates == 1..MaxDate
product_options == {"p1", "p2"}
category_options == {"c1", "c2"}
ReportTypes == {"All Sales Data", "Sales by Product", "Daily Sales Summary",
                "Sales by Category"}

NoQuery == [select |-> <<>>, where |-> <<>>, groupBy |-> "", orderBy |-> ""]

DateRange == [col |-> "sale_date", op |-> "BETWEEN",
              lo |-> start_date, hi |-> end_date, members |-> {}]

Membership(c, vals) == [col |-> c, op |-> "IN", lo |-> 0, hi |-> 0, members |-> vals]

AppendAlways(cond, c, vals) == Append(cond, Membership(c, vals))

\* if selected_products: base_condition += " AND product_name IN (...)"
AddMembership(cond, c, vals) ==
    IF vals # {} THEN Append(cond, Membership(c, vals)) ELSE cond

Condition ==
    AddMembership(AddMembership(<<DateRange>>, "product_name", selected_products),
                  "category", selected_categories)

SalesColumns == <<"sale_date", "product_name", "category", "quantity", "unit_price">>

SelectList(option) ==
    CASE option = "All Sales Data" -> <<"*", "amount">>
      [] option = "Sales by Product" -> <<"product_name", "total_qty", "total_amount">>
      [] option = "Daily Sales Summary" -> <<"sale_date", "total_qty", "total_amount">>
      [] option = "Sales by Category" -> <<"category", "total_qty", "total_amount">>

GroupBy(option) ==
    CASE option = "All Sales Data" -> ""
      [] option = "Sales by Product" -> "product_name"
      [] option = "Daily Sales Summary" -> "sale_date"
      [] option = "Sales by Category" -> "category"

OrderBy(option) == IF option = "Daily Sales Summary" THEN "sale_date" ELSE ""

Query(option, cond) ==
    [select |-> SelectList(option), where |-> cond,
     groupBy |-> GroupBy(option), orderBy |-> OrderBy(option)]

\* A widget changes: Streamlit reruns the script from the top with the new values.
Rerun ==
    /\ start_date' \in Dates
    /\ end_date' \in Dates
    /\ selected_products' \in SUBSET product_options
    /\ selected_categories' \in SUBSET category_options
    /\ query_option' \in ReportTypes
    /\ filterVars' # filterVars
    /\ script' = "condition"
    /\ base_condition' = <<>>
    /\ query' = NoQuery
    /\ UNCHANGED exportVars

BuildCondition ==
    /\ script = "condition"
    /\ base_condition' = Condition
    /\ script' = "select"
    /\ UNCHANGED <<filterVars, query, exportVars>>

BuildQuery ==
    /\ script = "select"
    /\ query' = Query(query_option, base_condition)
    /\ script' = "fetch"
    /\ UNCHANGED <<filterVars, base_condition, exportVars>>

(* --------------------------- result tables ----------------------------- *)
Sessions == {1, 2}

\* A cell of a text or date column: never equal to a number.
Label == -1

TextColumns == {"sale_date", "product_name", "category"}

\* SELECT * expands to the columns of the sales table; the computed columns follow.
ResultColumns(option) ==
    LET sel == SelectList(option)
    IN IF sel[1] = "*" THEN SalesColumns \o Tail(sel) ELSE sel

\* quantity*unit_price AS amount; SUM(quantity) AS total_qty; SUM(quantity*unit_price) AS total_amount
Cell(layout, c, r) ==
    CASE c \in TextColumns -> Label
      [] c \in {"quantity", "total_qty"} -> r.qty
      [] c \in {"unit_price", "total_amount"} -> r.amt
      [] c = "amount" ->
           IF \E j \in DOMAIN layout : layout[j] = "unit_price"
           THEN r.qty * r.amt ELSE r.amt

Table(layout, rs) ==
    [columns |-> layout,
     rows |-> [i \in 1..Len(rs) |-> [j \in 1..Len(layout) |-> Cell(layout, layout[j], rs[i])]]]

Has(t, c) == \E j \in DOMAIN t.columns : t.columns[j] = c

get_loc(t, c) == CHOOSE j \in DOMAIN t.columns : t.columns[j] = c

Column(t, c) == [i \in 1..Len(t.rows) |-> t.rows[i][get_loc(t, c)]]

LastColumn(t) == [i \in 1..Len(t.rows) |-> t.rows[i][Len(t.columns)]]

RowSeqs(quantities) ==
    UNION {[1..n -> [qty : quantities, amt : 0..MaxAmount]] : n \in 0..MaxRows}

\* Tables handed to the export functions by a caller other than the pages.
CallerLayouts == {<<"category", "amount">>,
                  <<"product_name", "total_amount", "total_qty">>,
                  <<"product_name", "total_qty">>}

ExampleRows == <<[qty |-> 1, amt |-> 10], [qty |-> 1, amt |-> 10], [qty |-> 1, amt |-> 10],
                 [qty |-> 1, amt |-> 5], [qty |-> 1, amt |-> 1]>>

Tables(org, quantities) ==
    IF org \in ReportTypes
    THEN {Table(ResultColumns(org), rs) : rs \in RowSeqs(quantities) \cup {ExampleRows}}
    ELSE {Table(l, rs) : l \in CallerLayouts, rs \in RowSeqs(quantities)}

(* ------------------------------ helpers -------------------------------- *)
Max(S) == CHOOSE x \in S : \A y \in S : y <= x

Range(f) == {f[i] : i \in DOMAIN f}

RemoveFirst(sq, v) ==
    LET k == CHOOSE i \in DOMAIN sq : sq[i] = v /\ \A j \in 1..(i - 1) : sq[j] # v
    IN SubSeq(sq, 1, k - 1) \o SubSeq(sq, k + 1, Len(sq))

RECURSIVE nlargest(_, _)
\* Series.nlargest(n): the n largest entries, largest first, duplicates kept.
nlargest(sq, n) ==
    IF n = 0 \/ sq = <<>> THEN <<>>
    ELSE LET m == Max(Range(sq))
         IN <<m>> \o nlargest(RemoveFirst(sq, m), n - 1)

RECURSIVE SetToSeq(_)
SetToSeq(S) == IF S = {} THEN <<>> ELSE LET m == Max(S) IN <<m>> \o SetToSeq(S \ {m})

TopCount == 3

(* ------------------------------ create_pdf ----------------------------- *)
HeaderColor == "#4F81BD"
Gold == "#FFD700"
AlternateA == "#DCE6F1"
AlternateB == "whitesmoke"

NoFile == [exists |-> FALSE, owner |-> 0, kind |-> ""]
NoFigure == [kind |-> "", valueField |-> ""]
NoPdf == [exists |-> FALSE, owner |-> 0, image |-> NoFile, style |-> <<>>]

HasAmount(t) == Has(t, "amount") \/ Has(t, "total_amount")

\* df['amount'] if 'amount' in df.columns else df['total_amount']
BarValueField(t) == IF Has(t, "amount") THEN "amount" ELSE "total_amount"

\* The column read by the highlighting, "" when the lookup raises KeyError.
HighlightColumn(t) ==
    IF Has(t, "total_amount") THEN "total_amount"
    ELSE IF Has(t, "amount") THEN "amount" ELSE ""

TopAmountsDistinct(t) ==
    nlargest(SetToSeq(Range(Column(t, HighlightColumn(t)))), TopCount)

top_amounts(t) == nlargest(Column(t, HighlightColumn(t)), TopCount)

BandingSwapped(t, i) ==
    IF \E k \in DOMAIN top_amounts(t) : top_amounts(t)[k] = Column(t, HighlightColumn(t))[i]
    THEN Gold
    ELSE IF i % 2 = 1 THEN AlternateA ELSE AlternateB

bg_color(t, i) ==
    IF \E k \in DOMAIN top_amounts(t) : top_amounts(t)[k] = Column(t, HighlightColumn(t))[i]
    THEN Gold
    ELSE IF i % 2 = 0 THEN AlternateA ELSE AlternateB

HeaderStyle ==
    << [cmd |-> "BACKGROUND", r0 |-> 0, r1 |-> 0, value |-> HeaderColor],
       [cmd |-> "TEXTCOLOR", r0 |-> 0, r1 |-> 0, value |-> "whitesmoke"],
       [cmd |-> "ALIGN", r0 |-> 0, r1 |-> -1, value |-> "CENTER"],
       [cmd |-> "FONTNAME", r0 |-> 0, r1 |-> 0, value |-> "Helvetica-Bold"],
       [cmd |-> "GRID", r0 |-> 0, r1 |-> -1, value |-> "grey"] >>

\* for i, row in enumerate(df.values.tolist(), start=1): one BACKGROUND command for row i
RowStyles(t) ==
    [i \in 1..Len(t.rows) |->
        [cmd |-> "BACKGROUND", r0 |-> i, r1 |-> i, value |-> bg_color(t, i)]]

\* A negative row index of a style command counts from the last row of the table.
Resolve(r, nrows) == IF r < 0 THEN nrows + r ELSE r

Covering(st, r, nrows) ==
    {k \in DOMAIN st : /\ st[k].cmd = "BACKGROUND"
                       /\ Resolve(st[k].r0, nrows) <= r
                       /\ r <= Resolve(st[k].r1, nrows)}

\* The background a table row is drawn with: the last command covering it wins.
Background(st, r, nrows) ==
    IF Covering(st, r, nrows) = {} THEN "none"
    ELSE st[Max(Covering(st, r, nrows))].value

Raise(s, e) ==
    /\ pc' = [pc EXCEPT ![s] = "raised"]
    /\ err' = [err EXCEPT ![s] = e]

\* create_pdf is called (by the Export PDF page, or by another caller).
CallCreatePdf(s) ==
    /\ pc[s] = "page"
    /\ pc' = [pc EXCEPT ![s] = "chart"]
    /\ elements' = [elements EXCEPT ![s] = <<"Title", "Normal", "Spacer">>]
    /\ UNCHANGED <<filterVars, queryVars, origin, df, figure, style, err,
                   chart_png, pdf_on_disk, download, excel>>

ChartKind(t) ==
    IF Has(t, "product_name") THEN "bar"
    ELSE IF Has(t, "category") THEN "pie" ELSE "blank"

\* No amount column: the chart block is skipped.
SkipChart(s) ==
    /\ pc[s] = "chart"
    /\ ~HasAmount(df[s])
    /\ pc' = [pc EXCEPT ![s] = "table"]
    /\ UNCHANGED <<filterVars, queryVars, origin, df, figure, elements, style, err,
                   chart_png, pdf_on_disk, download, excel>>

\* plt.pie(df['total_amount'], ...) on a table without total_amount.
ChartRaises(s) ==
    /\ pc[s] = "chart"
    /\ HasAmount(df[s])
    /\ ChartKind(df[s]) = "pie"
    /\ ~Has(df[s], "total_amount")
    /\ Raise(s, "KeyError: total_amount")
    /\ UNCHANGED <<filterVars, queryVars, origin, df, figure, elements, style,
                   chart_png, pdf_on_disk, download, excel>>

\* plt.figure ... plt.savefig(chart_file); elements.append(Image(chart_file)).
DrawChart(s) ==
    /\ pc[s] = "chart"
    /\ HasAmount(df[s])
    /\ ChartKind(df[s]) = "pie" => Has(df[s], "total_amount")
    /\ figure' = [figure EXCEPT ![s] =
            [kind |-> ChartKind(df[s]),
             valueField |-> CASE ChartKind(df[s]) = "bar" -> BarValueField(df[s])
                              [] ChartKind(df[s]) = "pie" -> "total_amount"
                              [] OTHER -> ""]]
    /\ chart_png' = [exists |-> TRUE, owner |-> s, kind |-> ChartKind(df[s])]
    /\ elements' = [elements EXCEPT ![s] = @ \o <<"Image", "Spacer">>]
    /\ pc' = [pc EXCEPT ![s] = "table"]
    /\ UNCHANGED <<filterVars, queryVars, origin, df, style, err,
                   pdf_on_disk, download, excel>>

\* df['amount'].nlargest(3) on a table with neither amount column.
StyleRaises(s) ==
    /\ pc[s] = "table"
    /\ HighlightColumn(df[s]) = ""
    /\ Raise(s, "KeyError: amount")
    /\ style' = [style EXCEPT ![s] = HeaderStyle]
    /\ UNCHANGED <<filterVars, queryVars, origin, df, figure, elements,
                   chart_png, pdf_on_disk, download, excel>>

StyleTable(s) ==
    /\ pc[s] = "table"
    /\ HighlightColumn(df[s]) # ""
    /\ style' = [style EXCEPT ![s] = HeaderStyle \o RowStyles(df[s])]
    /\ elements' = [elements EXCEPT ![s] = Append(@, "Table")]
    /\ pc' = [pc EXCEPT ![s] = "build"]
    /\ UNCHANGED <<filterVars, queryVars, origin, df, figure, err,
                   chart_png, pdf_on_disk, download, excel>>

HasImage(s) == \E k \in DOMAIN elements[s] : elements[s][k] = "Image"

\* doc.build(elements): the image file is read now, the document is written.
Build(s) ==
    /\ pc[s] = "build"
    /\ HasImage(s) => chart_png.exists
    /\ pdf_on_disk' = [exists |-> TRUE, owner |-> s,
                       image |-> IF HasImage(s) THEN chart_png ELSE NoFile,
                       style |-> style[s]]
    /\ pc' = [pc EXCEPT ![s] = "cleanup"]
    /\ UNCHANGED <<filterVars, queryVars, origin, df, figure, elements, style, err,
                   chart_png, download, excel>>

\* doc.build raises: the image file is gone, or the document cannot be laid out or written.
BuildRaises(s) ==
    /\ pc[s] = "build"
    /\ Raise(s, IF HasImage(s) /\ ~chart_png.exists THEN "OSError: chart.png" ELSE "OSError")
    /\ UNCHANGED <<filterVars, queryVars, origin, df, figure, elements, style,
                   chart_png, pdf_on_disk, download, excel>>

\* if os.path.exists(chart_file):
ChartExists(s) ==
    /\ pc[s] = "cleanup"
    /\ pc' = [pc EXCEPT ![s] = IF chart_png.exists THEN "remove" ELSE "return"]
    /\ UNCHANGED <<filterVars, queryVars, origin, df, figure, elements, style, err,
                   chart_png, pdf_on_disk, download, excel>>

\* os.remove(chart_file)
RemoveChart(s) ==
    /\ pc[s] = "remove"
    /\ IF chart_png.exists
       THEN /\ chart_png' = NoFile
            /\ pc' = [pc EXCEPT ![s] = "return"]
            /\ err' = err
       ELSE /\ Raise(s, "FileNotFoundError: chart.png")
            /\ chart_png' = chart_png
    /\ UNCHANGED <<filterVars, queryVars, origin, df, figure, elements, style,
                   pdf_on_disk, download, excel>>

\* return pdf_file; the page opens the file and hands its content to the download button.
OpenPdf(s) ==
    /\ pc[s] = "return"
    /\ download' = [download EXCEPT ![s] = pdf_on_disk]
    /\ pc' = [pc EXCEPT ![s] = "done"]
    /\ UNCHANGED <<filterVars, queryVars, origin, df, figure, elements, style, err,
                   chart_png, pdf_on_disk, excel>>

CreatePdf(s) ==
    \/ CallCreatePdf(s)
    \/ SkipChart(s)
    \/ ChartRaises(s)
    \/ DrawChart(s)
    \/ StyleRaises(s)
    \/ StyleTable(s)
    \/ Build(s)
    \/ BuildRaises(s)
    \/ ChartExists(s)
    \/ RemoveChart(s)
    \/ OpenPdf(s)

(* ----------------------- create_excel_with_chart ----------------------- *)
NoChart == [inserted |-> FALSE, categories |-> [first_row |-> 0, col |-> 0, last_row |-> 0],
            values |-> [first_row |-> 0, col |-> 0, last_row |-> 0]]
NoExcel == [sheet_rows |-> 0, gold |-> {}, chart |-> NoChart, returned |-> FALSE]

\* for i, val in enumerate(df.iloc[:, -1]): if val in top_amounts: set_row(i+1, ...)
GoldSheetRows(t) ==
    {i + 1 : i \in {k \in 0..(Len(t.rows) - 1) :
                      \E m \in DOMAIN top_amounts(t) : top_amounts(t)[m] = LastColumn(t)[k + 1]}}

\* df.columns.get_loc(c) + 1, with get_loc counting from 0.
ColNumber(t, c) == (get_loc(t, c) - 1) + 1

\* df.to_excel(writer, index=False, sheet_name="Report"): the header row and the data rows.
WriteSheet(s) ==
    /\ pc[s] = "xl_page"
    /\ excel' = [excel EXCEPT ![s] = [NoExcel EXCEPT !.sheet_rows = 1 + Len(df[s].rows)]]
    /\ pc' = [pc EXCEPT ![s] = "xl_top"]
    /\ UNCHANGED <<filterVars, queryVars, origin, df, figure, elements, style, err,
                   chart_png, pdf_on_disk, download>>

HighlightRaises(s) ==
    /\ pc[s] = "xl_top"
    /\ HighlightColumn(df[s]) = ""
    /\ Raise(s, "KeyError: amount")
    /\ UNCHANGED <<filterVars, queryVars, origin, df, figure, elements, style,
                   chart_png, pdf_on_disk, download, excel>>

HighlightRows(s) ==
    /\ pc[s] = "xl_top"
    /\ HighlightColumn(df[s]) # ""
    /\ excel' = [excel EXCEPT ![s].gold = GoldSheetRows(df[s])]
    /\ pc' = [pc EXCEPT ![s] = "xl_chart"]
    /\ UNCHANGED <<filterVars, queryVars, origin, df, figure, elements, style, err,
                   chart_png, pdf_on_disk, download>>

\* df.columns.get_loc('product_name') on a table with neither category nor product_name.
AxisRaises(s) ==
    /\ pc[s] = "xl_chart"
    /\ ~Has(df[s], "category")
    /\ ~Has(df[s], "product_name")
    /\ Raise(s, "KeyError: product_name")
    /\ UNCHANGED <<filterVars, queryVars, origin, df, figure, elements, style,
                   chart_png, pdf_on_disk, download, excel>>

InsertChart(s) ==
    /\ pc[s] = "xl_chart"
    /\ Has(df[s], "category") \/ Has(df[s], "product_name")
    /\ LET col_amount == ColNumber(df[s], HighlightColumn(df[s]))
           col_name == IF Has(df[s], "category") THEN ColNumber(df[s], "category")
                       ELSE ColNumber(df[s], "product_name")
       IN excel' = [excel EXCEPT ![s].chart =
              [inserted |-> TRUE,
               categories |-> [first_row |-> 1, col |-> col_name - 1,
                               last_row |-> Len(df[s].rows)],
               values |-> [first_row |-> 1, col |-> col_amount - 1,
                           last_row |-> Len(df[s].rows)]]]
    /\ pc' = [pc EXCEPT ![s] = "xl_return"]
    /\ UNCHANGED <<filterVars, queryVars, origin, df, figure, elements, style, err,
                   chart_png, pdf_on_disk, download>>

\* The writer is closed and output.getvalue() is returned.
ReturnExcel(s) ==
    /\ pc[s] = "xl_return"
    /\ excel' = [excel EXCEPT ![s].returned = TRUE]
    /\ pc' = [pc EXCEPT ![s] = "xl_done"]
    /\ UNCHANGED <<filterVars, queryVars, origin, df, figure, elements, style, err,
                   chart_png, pdf_on_disk, download>>

CreateExcel(s) ==
    \/ WriteSheet(s)
    \/ HighlightRaises(s)
    \/ HighlightRows(s)
    \/ AxisRaises(s)
    \/ InsertChart(s)
    \/ ReturnExcel(s)

(* --------------------------- specifications ---------------------------- *)
Origins == ReportTypes \cup {"caller"}

EmptyTable == [columns |-> <<>>, rows |-> <<>>]

\* The script has run to fetch_data with the widgets at their defaults and the
\* report type of session 1.
ScriptFetched(option) ==
    /\ start_date = 1
    /\ end_date = MaxDate
    /\ selected_products = product_options
    /\ selected_categories = category_options
    /\ query_option = option
    /\ script = "fetch"
    /\ base_condition = Condition
    /\ query = Query(option, base_condition)

NoExport ==
    /\ figure = [s \in Sessions |-> NoFigure]
    /\ elements = [s \in Sessions |-> <<>>]
    /\ style = [s \in Sessions |-> <<>>]
    /\ err = [s \in Sessions |-> ""]
    /\ chart_png = NoFile
    /\ pdf_on_disk = NoPdf
    /\ download = [s \in Sessions |-> NoPdf]
    /\ excel = [s \in Sessions |-> NoExcel]

InitQuery ==
    /\ start_date \in Dates
    /\ end_date \in Dates
    /\ selected_products \in SUBSET product_options
    /\ selected_categories \in SUBSET category_options
    /\ query_option \in ReportTypes
    /\ script = "condition"
    /\ base_condition = <<>>
    /\ query = NoQuery
    /\ origin = [s \in Sessions |-> query_option]
    /\ df = [s \in Sessions |-> EmptyTable]
    /\ pc = [s \in Sessions |-> "off"]
    /\ NoExport

NextQuery == Rerun \/ BuildCondition \/ BuildQuery

SpecQuery == InitQuery /\ [][NextQuery]_vars

\* One session calls an export function on its table.
InitOne(start, quantities) ==
    /\ \E o \in Origins : \E t \in Tables(o, quantities) :
          /\ origin = [s \in Sessions |-> o]
          /\ df = [s \in Sessions |-> IF s = 1 THEN t ELSE EmptyTable]
    /\ ScriptFetched(IF origin[1] \in ReportTypes THEN origin[1] ELSE "All Sales Data")
    /\ pc = [s \in Sessions |-> IF s = 1 THEN start ELSE "off"]
    /\ NoExport

InitPdf == InitOne("page", {1})

NextPdf == \E s \in Sessions : CreatePdf(s)

Spec == InitPdf /\ [][NextPdf]_vars

InitExcel == InitOne("xl_page", 1..MaxQty)

NextExcel == \E s \in Sessions : CreateExcel(s)

SpecExcel == InitExcel /\ [][NextExcel]_vars

\* Two sessions of the app, each with its own table, share the working directory.
SmallRows == {<<>>, <<[qty |-> 1, amt |-> 1]>>}

SmallTables(o) ==
    IF o \in ReportTypes
    THEN {Table(ResultColumns(o), rs) : rs \in SmallRows}
    ELSE {Table(l, rs) : l \in CallerLayouts, rs \in SmallRows}

InitConc ==
    /\ origin \in [Sessions -> Origins]
    /\ df \in [Sessions -> UNION {SmallTables(o) : o \in Origins}]
    /\ \A s \in Sessions : df[s] \in SmallTables(origin[s])
    /\ ScriptFetched(IF origin[1] \in ReportTypes THEN origin[1] ELSE "All Sales Data")
    /\ pc = [s \in Sessions |-> "page"]
    /\ NoExport

SpecConc == InitConc /\ [][NextPdf]_vars

(* ------------------------------- claims -------------------------------- *)
\* The table of session s has been styled by create_pdf.
Styled(s) == \E k \in DOMAIN elements[s] : elements[s][k] = "Table"

Amounts(t) ==
    IF Has(t, "total_amount") THEN Column(t, "total_amount") ELSE Column(t, "amount")

\* a[i] is one of the 3 largest entries of a: fewer than 3 entries are larger.
AmongLargest3(a, i) == Cardinality({j \in DOMAIN a : a[j] > a[i]}) < 3

PdfGoldRows(s) ==
    {i \in 1..Len(df[s].rows) : Background(style[s], i, Len(df[s].rows) + 1) = Gold}

\* C1: in create_pdf a data row has the gold background if and only if its amount
\* equals one of the 3 largest entries of the amount column (ties all marked); for
\* the amounts 10, 10, 10, 5, 1 exactly the three rows with 10 are gold.
C1_TopNByValue ==
    \A s \in Sessions :
        Styled(s) =>
            /\ \A i \in 1..Len(df[s].rows) :
                   (i \in PdfGoldRows(s)) <=> AmongLargest3(Amounts(df[s]), i)
            /\ Amounts(df[s]) = <<10, 10, 10, 5, 1>> => PdfGoldRows(s) = {1, 2, 3}

C1_Witness ==
    \E s \in Sessions :
        /\ Styled(s)
        /\ Amounts(df[s]) = <<10, 10, 10, 5, 1>>
        /\ PdfGoldRows(s) = {1, 2, 3}

\* C2: in create_pdf every data row carries exactly one background; a row that is
\* not TopN has the light-blue tint at an even 1-based position and the untinted
\* one at an odd position, a TopN row is gold at any position, and the header row
\* keeps the header background.
C2_Banding ==
    \A s \in Sessions :
        Styled(s) =>
            LET n == Len(df[s].rows)
                bg(r) == Background(style[s], r, n + 1)
            IN /\ \A i \in 1..n :
                    /\ Cardinality(Covering(style[s], i, n + 1)) = 1
                    /\ AmongLargest3(Amounts(df[s]), i) => bg(i) = Gold
                    /\ ~AmongLargest3(Amounts(df[s]), i) =>
                          bg(i) = IF i % 2 = 0 THEN AlternateA ELSE AlternateB
               /\ bg(0) = HeaderColor
               /\ Cardinality(Covering(style[s], 0, n + 1)) = 1

C2_Witness ==
    \E s \in Sessions :
        /\ Styled(s)
        /\ \E i, j \in 1..Len(df[s].rows) :
              /\ i % 2 = 0 /\ j % 2 = 1
              /\ Background(style[s], i, Len(df[s].rows) + 1) = AlternateA
              /\ Background(style[s], j, Len(df[s].rows) + 1) = AlternateB
        /\ Background(style[s], 1, Len(df[s].rows) + 1) = Gold
        /\ Background(style[s], 0, Len(df[s].rows) + 1) = HeaderColor

OneAmountColumn(t) == Has(t, "amount") # Has(t, "total_amount")

C5_ScratchFileRemoved ==
    \A s \in Sessions :
        (pc[s] \in {"return", "done", "raised"} /\ figure[s].kind # "") =>
            ~chart_png.exists

\* C6: with two create_pdf invocations interleaved, each builds its document from
\* the chart image it wrote itself, never finds its image deleted, and hands back
\* the output file it wrote itself.
C6_NoCrossRequestCorruption ==
    \A s \in Sessions :
        /\ err[s] \notin {"OSError: chart.png", "FileNotFoundError: chart.png"}
        /\ pc[s] = "done" =>
              /\ download[s].owner = s
              /\ download[s].image.exists => download[s].image.owner = s

ChartDecided(s) == pc[s] \notin {"off", "page", "chart"}

\* C7: create_pdf draws a bar chart for a table with product_name, a pie chart for
\* one with category and no product_name, and for a table with neither puts no
\* chart image into the document; the chart step does not fail on a report table.
C7_StaticChartByColumns ==
    \A s \in Sessions :
        (ChartDecided(s) /\ origin[s] \in ReportTypes) =>
            /\ err[s] # "KeyError: total_amount"
            /\ Has(df[s], "product_name") => (HasImage(s) /\ figure[s].kind = "bar")
            /\ (Has(df[s], "category") /\ ~Has(df[s], "product_name")) =>
                  (HasImage(s) /\ figure[s].kind = "pie")
            /\ (~Has(df[s], "category") /\ ~Has(df[s], "product_name")) => ~HasImage(s)

\* C8: for a report table with zero rows create_pdf does not raise and the
\* document holds a header-only table: no row backgrounds and no chart image.
C8_EmptyTableDocument ==
    \A s \in Sessions :
        (origin[s] \in ReportTypes /\ df[s].rows = <<>>) =>
            /\ err[s] \notin {"KeyError: amount", "KeyError: total_amount"}
            /\ Styled(s) => (style[s] = HeaderStyle /\ ~HasImage(s))

Find(cond, c, o) == {k \in DOMAIN cond : cond[k].col = c /\ cond[k].op = o}

\* C9: the WHERE condition of the built query holds the date-range predicate on
\* sale_date with the selected bounds, a product_name membership predicate exactly
\* when products are selected, a category membership predicate exactly when
\* categories are selected, and nothing else, whatever the report type; only the
\* Daily Sales Summary query is ordered, by sale_date.
C9_QueryCondition ==
    script = "fetch" =>
        LET w == query.where
        IN /\ \E k \in Find(w, "sale_date", "BETWEEN") :
                 w[k].lo = start_date /\ w[k].hi = end_date
           /\ Cardinality(Find(w, "sale_date", "BETWEEN")) = 1
           /\ (Find(w, "product_name", "IN") # {}) <=> (selected_products # {})
           /\ \A k \in Find(w, "product_name", "IN") : w[k].members = selected_products
           /\ (Find(w, "category", "IN") # {}) <=> (selected_categories # {})
           /\ \A k \in Find(w, "category", "IN") : w[k].members = selected_categories
           /\ Len(w) = 1 + Cardinality(Find(w, "product_name", "IN"))
                         + Cardinality(Find(w, "category", "IN"))
           /\ (query.orderBy = "sale_date") <=> (query_option = "Daily Sales Summary")
           /\ query.orderBy \in {"", "sale_date"}

C9_Witness ==
    /\ script = "fetch"
    /\ selected_products = {}
    /\ selected_categories # {}
    /\ Len(query.where) = 2
    /\ query_option = "Daily Sales Summary"
    /\ query.orderBy = "sale_date"

\* C10: the table of each of the four report types is exported by
\* create_excel_with_chart without a missing-column error, and the chart's category
\* axis is the category or product_name column and its value axis the amount column.
C10_ExcelExportsEveryReport ==
    \A s \in Sessions :
        origin[s] \in ReportTypes =>
            /\ err[s] = ""
            /\ excel[s].chart.inserted =>
                  /\ df[s].columns[excel[s].chart.categories.col + 1]
                        \in {"category", "product_name"}
                  /\ df[s].columns[excel[s].chart.values.col + 1]
                        \in {"amount", "total_amount"}

====
